---------------------------- MODULE Spec2Model ----------------------------
(***************************************************************************)
(* The conversation controller of the Bible companion bot (src/src/bot.py),*)
(* its document-store adapter (src/src/drive_manager.py) and its           *)
(* generative provider (src/src/ai_agent.py), as one state machine.        *)
(*                                                                         *)
(* One session (one user's ConversationHandler state and user_data) works  *)
(* against one shared Drive folder; the session of a second user, with a   *)
(* folder of their own, is kept aside.  Every handler is one action:       *)
(* the adapter calls it awaits are part of the action, and what each call  *)
(* returns (a listing that fails and yields [], a write that raises, the   *)
(* text the provider sends back) is chosen with \E.                        *)
(*                                                                         *)
(* Texts are sequences of tokens.  A plan text is a sequence of            *)
(* [day, sep] tokens: [day |-> 8, sep |-> ":"] stands for the characters   *)
(* "Day 8:", [day |-> 8, sep |-> " "] for "Day 8 ", and a token with       *)
(* day = 0 for text that holds no day label.  A folder id, a reference and *)
(* an error message are sequences of words.                                *)
(***************************************************************************)
EXTENDS Integers, Sequences, FiniteSets, TLC

VARIABLES
    state,      \* the ConversationHandler's state of the session ("END": none)
    user_data,  \* context.user_data of the session
    files,      \* the documents of the Drive: id -> [folder, name, data]
    canCreate,  \* whether the service account may create files in the folder
    client,     \* whether the provider has a client (an API key was configured)
    faults,     \* how many adapter calls have failed, documents been removed
    last,       \* what the last handler did: its input, calls, replies, result
    coveredDay, \* the day of the last read flow that reached READING (0: none)
    tally,      \* what the session has completed: /done events, discussion turns
    limits,     \* the bounds of the model that the behaviour is explored under
    who,        \* the user whose session state and user_data are: "A" or "B"
    other       \* the session of the other user, as its last handler left it

vars ==
    <<state, user_data, files, canCreate, client, faults, last, coveredDay,
      tally, limits, who, other>>

-----------------------------------------------------------------------------
(* Bounds of the model *)

MaxFiles == 4       \* document ids are 1..MaxFiles
MaxFaults == 1      \* adapter calls that fail, and documents the user removes
MaxDay == 2         \* /done is taken while current_day < MaxDay
MaxPlanLen == 3     \* the plan body is extended while it has at most this many tokens
LongDays == 9       \* the day bound of the reader who goes on to a second week
LongPlanLen == 15   \* the plan bound of that reader: two weeks and a separator
FlakyFaults == 2    \* the calls that fail in the run of a store that fails twice
PairFiles == 7      \* the document ids of two users: three documents each, a probe

(* Constants of the program *)

HistoryLimit == 10  \* bot.py: if len(history) > 10: history = history[-10:]
ExtensionSpan == 6  \* bot.py: Day {current_day} to Day {current_day + 6}
FirstDay == 1       \* bot.py: 'current_day': 1, and profile.get('current_day', 1)

None == 0           \* Python's None where a document id is expected

-----------------------------------------------------------------------------
(* Values *)

DRIVE_SETUP == "DRIVE_SETUP"
ONBOARDING_LANGUAGE == "ONBOARDING_LANGUAGE"
ONBOARDING_TRANSLATION == "ONBOARDING_TRANSLATION"
ONBOARDING_DENOMINATION == "ONBOARDING_DENOMINATION"
ONBOARDING_STYLE == "ONBOARDING_STYLE"
ONBOARDING_PACING == "ONBOARDING_PACING"
ONBOARDING_ORDERING == "ONBOARDING_ORDERING"
IDLE == "IDLE"
READING == "READING"
DISCUSSION == "DISCUSSION"
END == "END"            \* ConversationHandler.END: no conversation is active

States ==
    {DRIVE_SETUP, ONBOARDING_LANGUAGE, ONBOARDING_TRANSLATION,
     ONBOARDING_DENOMINATION, ONBOARDING_STYLE, ONBOARDING_PACING,
     ONBOARDING_ORDERING, IDLE, READING, DISCUSSION}

ProfileName == "profile.yaml"
PlanName == "reading_plan.yaml"
(* the history document under the name of the Markdown store *)
HistoryName_Markdown == "chat_history.md"

HistoryName == "chat_history.yaml"
ProbeName == "bot_test_permission.yaml"

EmptyData == [k \in {} |-> 0]      \* an empty YAML document: {} (falsy)
NoneData == [none |-> TRUE]        \* Python's None where a mapping is expected

Truthy(d) == d # NoneData /\ DOMAIN d # {}

Get(d, k, default) == IF k \in DOMAIN d THEN d[k] ELSE default

Put(d, k, v) == [j \in DOMAIN d \cup {k} |-> IF j = k THEN v ELSE d[j]]

Ids == 1..limits.files

(* str.strip(): the text without its leading and trailing blanks *)
RECURSIVE LStrip(_)
LStrip(s) == IF s # <<>> /\ Head(s) = " " THEN LStrip(Tail(s)) ELSE s

RECURSIVE RStrip(_)
RStrip(s) ==
    IF s # <<>> /\ s[Len(s)] = " " THEN RStrip(SubSeq(s, 1, Len(s) - 1)) ELSE s

Strip(s) == RStrip(LStrip(s))

-----------------------------------------------------------------------------
(* The document store: GoogleDriveManager *)

SharedFolder == <<"f1">>           \* the folder shared with the service account
OtherFolder == <<"f2">>            \* the folder another user shares with it

SharedFolders == {SharedFolder, OtherFolder}

(* a listing that is not restricted to the folder: every file of the Drive *)
InFolder_AnyParent(fs, folder) == DOMAIN fs

(* q = "'{folder_id}' in parents and trashed = false" *)
InFolder(fs, folder) == {i \in DOMAIN fs : fs[i].folder = folder}

(* list_files_in_folder: the files of the folder; a failing request (folder
   not shared, not found, network) is logged and answered with [] *)
ListFilesInFolder(fs, folder, ok) == IF ok THEN InFolder(fs, folder) ELSE {}

(* the request of a listing fails: the folder is not shared with the account
   or not found, or the Drive is not reached *)
ListingFails(folder, ok) == ~ok \/ folder \notin SharedFolders

(* get_file_id_by_name: the id of a listed file of that name, else None.
   The listing's order is the Drive's: any file of that name may come first. *)
GetFileIdByName(fs, folder, name, ok) ==
    LET hits == {i \in ListFilesInFolder(fs, folder, ok) : fs[i].name = name}
    IN  IF hits = {} THEN {None} ELSE hits

(* delete_file: True and the file is gone, or False (the error is logged) *)
DeleteFile(fs, id, ok) ==
    IF ok /\ id \in DOMAIN fs THEN [i \in DOMAIN fs \ {id} |-> fs[i]] ELSE fs

(* read_yaml_file(id): the document's mapping; None when it cannot be read *)
ReadYamlFile(fs, id, ok) ==
    IF ok /\ id \in DOMAIN fs THEN fs[id].data ELSE NoneData

FreeId(fs) == CHOOSE i \in Ids \ DOMAIN fs : \A j \in Ids \ DOMAIN fs : i <= j

NoErr == <<>>
ErrQuota == <<"Service", "Accounts", "do", "not", "have", "storage", "quota">>
ErrQuotaWord == <<"Quota", "exceeded">>
ErrNoStorage == <<"service", "accounts", "do", "not", "have", "storage">>
ErrOther == <<"Permission", "denied">>
ErrNotFound == <<"File", "not", "found">>

(* what a failing write request may answer *)
WriteErrors == {ErrQuota, ErrQuotaWord, ErrNoStorage, ErrOther}

(* write_yaml_file(folder, name, data, file_id): the upsert.  Without a
   file_id the file is looked up by name (found: the lookup's answer); with
   an id the file is updated, without one it is created.  err is the error
   of the request (NoErr: none); a create by an account that may not create
   fails with the storage-quota error.  The result: whether it raised, the
   error, the id written, the files afterwards, whether a file was created. *)
WriteYamlFile(fs, create, folder, name, data, file_id, found, err) ==
    LET fid == IF file_id # None THEN file_id ELSE found
        fail(e) == [raised |-> TRUE, err |-> e, id |-> None, files |-> fs,
                    created |-> FALSE]
    IN  IF err # NoErr THEN fail(err)
        ELSE IF fid # None
        THEN IF fid \in DOMAIN fs
             THEN [raised |-> FALSE, err |-> NoErr, id |-> fid,
                   files |-> [fs EXCEPT ![fid].data = data], created |-> FALSE]
             ELSE fail(ErrOther)
        ELSE IF folder \notin SharedFolders THEN fail(ErrOther)
        ELSE IF ~create THEN fail(ErrQuota)
        ELSE LET new == FreeId(fs)
             IN  [raised |-> FALSE, err |-> NoErr, id |-> new,
                  files |-> [i \in DOMAIN fs \cup {new} |->
                               IF i = new
                               THEN [folder |-> folder, name |-> name,
                                     data |-> data]
                               ELSE fs[i]],
                  created |-> TRUE]


-----------------------------------------------------------------------------
(* The generative provider: GeminiAgent.  generate_response never raises: it
   answers with the model's text, with the fixed sentinel when no client is
   configured, or with the fixed apology when the request fails. *)

Label(d, sep) == [day |-> d, sep |-> sep]
SentinelText == "AI Service Unavailable (Missing API Key)."
ApologyText == "I'm having trouble connecting to my knowledge base right now."
Unavailable == Label(0, SentinelText)
Blank == Label(0, "\n\n")

(* a fixed sentence where a plan text ("plan"), a reference ("ref") or
   another text is expected *)
Fixed(sentence, kind) ==
    CASE kind = "plan" -> <<Label(0, sentence)>>
      [] kind = "ref" -> <<sentence>>
      [] OTHER -> sentence

(* the request sent although there is no client: what the model would say
   comes back *)
GenerateResponse_NoCheck(hasClient, ok, text, kind) ==
    IF ~ok THEN Fixed(ApologyText, kind) ELSE text

(* generate_response: the sentinel if not self.client; the apology when the
   request raises; else response.text *)
GenerateResponse(hasClient, ok, text, kind) ==
    IF ~hasClient THEN Fixed(SentinelText, kind)
    ELSE IF ~ok THEN Fixed(ApologyText, kind)
    ELSE text

(* a text with the labels of n days from day d on: "Day d: ... Day d+n-1: ..." *)
Days(d, n, sep) == [k \in 1..n |-> Label(d + k - 1, sep)]

(* texts the model may send for the first plan: "Day 1: ..." *)
PlanTexts == {Days(FirstDay, limits.span, ":")}

(* texts it may send when asked to extend the plan from day d: "Day d - ..." *)
ExtensionTexts(d) == {Days(d, limits.span, " ")}

(* texts it may send when asked for the reference of a day *)
RefTexts == {<<" ", "Genesis", "1", " ">>, <<" ">>}

ScriptureTexts == {"In the beginning..."}

(* what the user may write in a discussion: an opening, and another text
   after that *)
UserTexts(history) ==
    IF history = <<>> THEN {"What does this mean?"} ELSE {"Why?"}

ModelTexts == {"It means..."}

(* generate_reading_plan(profile): one generate_response call *)
GenerateReadingPlan(profile, text) ==
    [fn |-> "generate_reading_plan", from |-> FirstDay, to |-> FirstDay + 6,
     history |-> <<>>, text |-> text]

-----------------------------------------------------------------------------
(* The log of one handler run *)

(* a reply_text: what it says, the onboarding question it asks (if any), the
   documents it names, the error text it quotes *)
Reply(tag) == [tag |-> tag, asks |-> "", names |-> {}, err |-> NoErr]

Ask(tag, question) == [Reply(tag) EXCEPT !.asks = question]

(* a call of the store: the file name and id it was given, the id it
   answered (None: nothing), whether it raised, whether it created a file *)
StoreCall(call, name, file_id, result) ==
    [call |-> call, name |-> name, file_id |-> file_id, result |-> result,
     raised |-> FALSE, err |-> NoErr, created |-> FALSE]

WriteCall(name, file_id, w) ==
    [call |-> "write_yaml_file", name |-> name, file_id |-> file_id,
     result |-> w.id, raised |-> w.raised, err |-> w.err,
     created |-> w.created]

(* the listing drive_setup_handler verifies access with: err is the error
   the adapter logged and swallowed *)
ListCall(folder, ok) ==
    [StoreCall("list_files_in_folder", "", None, None)
        EXCEPT !.err = IF ListingFails(folder, ok) THEN ErrNotFound ELSE NoErr]

(* day: the current_day the handler worked with (0: it read none) *)
LogDay(op, input, ret, replies, ai, store, day) ==
    [op |-> op, input |-> input, ret |-> ret, replies |-> replies, ai |-> ai,
     store |-> store, day |-> day]

Log(op, input, ret, replies, ai, store) ==
    LogDay(op, input, ret, replies, ai, store, 0)

NoFolder == <<>>

-----------------------------------------------------------------------------
(* The state after construction: no conversation, an empty user_data; the
   folder shared with the bot holds no document yet. *)

EmptyUserData ==
    [drive_folder_id |-> NoFolder, language |-> "", translation |-> "",
     denomination |-> "", style |-> "", pacing |-> "", ordering |-> "",
     profile |-> EmptyData, current_reading_ref |-> <<>>,
     current_scripture |-> "", has_chat_history |-> FALSE,
     chat_history |-> <<>>]

(* dones: the /done events completed since onboarding last completed;
   turned: a discussion turn completed since the last completed /done;
   talked: a discussion turn completed since the last /start *)
NoTally == [dones |-> 0, turned |-> FALSE, talked |-> FALSE]

Tally(t, log) ==
    IF log.op = "onboarding_ordering" /\ log.ret = IDLE
    THEN [t EXCEPT !.dones = 0]
    ELSE IF log.op = "done_command" /\ log.ret = DISCUSSION
    THEN [t EXCEPT !.dones = @ + 1, !.turned = FALSE]
    ELSE IF log.op = "discussion_handler" /\ log.ret = DISCUSSION
    THEN [t EXCEPT !.turned = TRUE, !.talked = TRUE]
    ELSE t

(* a session that is not the one handling an update *)
Parked(s, ud, day, t) ==
    [state |-> s, user_data |-> ud, coveredDay |-> day, tally |-> t]

(* span: how many day labels a plan text of the provider holds *)
Limits(nfiles, nfaults, nday, nplan, nspan) ==
    [files |-> nfiles, faults |-> nfaults, day |-> nday, plan |-> nplan,
     span |-> nspan]

Boot ==
    /\ state = END
    /\ user_data = EmptyUserData
    /\ files = [i \in {} |-> 0]
    /\ faults = 0
    /\ coveredDay = 0
    /\ tally = NoTally
    /\ who = "A"
    /\ other = Parked(END, EmptyUserData, 0, NoTally)
    /\ last = Log("init", <<>>, END, <<>>, <<>>, <<>>)

Init ==
    /\ Boot
    /\ canCreate \in BOOLEAN
    /\ client \in BOOLEAN
    /\ limits = Limits(MaxFiles, MaxFaults, MaxDay, MaxPlanLen, 1)

-----------------------------------------------------------------------------
(* a routing table in which /read is an entry point too *)
StateHandlers_ReadAfterEnd(s) ==
    CASE s = END -> {"start", "read"}
      [] s = IDLE -> {"read", "cancel", "help"}
      [] s = READING -> {"done", "cancel", "help"}
      [] s = DISCUSSION -> {"read", "text", "cancel", "help"}
      [] OTHER -> {"text", "cancel", "help"}

(* a routing table in which /done is also handled while Idle *)
StateHandlers_DoneWhileIdle(s) ==
    CASE s = END -> {"start"}
      [] s = IDLE -> {"read", "done", "cancel", "help"}
      [] s = READING -> {"done", "cancel", "help"}
      [] s = DISCUSSION -> {"read", "text", "cancel", "help"}
      [] OTHER -> {"text", "cancel", "help"}

(* _setup_handlers: which updates each state handles.  The entry point
   /start is looked at only while no conversation is active; the fallbacks
   /cancel and /help after the state's own handlers. *)
StateHandlers(s) ==
    CASE s = END -> {"start"}
      [] s = DRIVE_SETUP -> {"text", "cancel", "help"}
      [] s \in {ONBOARDING_LANGUAGE, ONBOARDING_TRANSLATION,
                ONBOARDING_DENOMINATION, ONBOARDING_STYLE, ONBOARDING_PACING,
                ONBOARDING_ORDERING} -> {"text", "cancel", "help"}
      [] s = IDLE -> {"read", "cancel", "help"}
      [] s = READING -> {"done", "cancel", "help"}
      [] s = DISCUSSION -> {"read", "text", "cancel", "help"}

Handles(s, update) == update \in StateHandlers(s)

(* the handler that a text message reaches in state s *)
TextHandler(s) ==
    CASE s = DRIVE_SETUP -> "drive_setup_handler"
      [] s = ONBOARDING_LANGUAGE -> "onboarding_language"
      [] s = ONBOARDING_TRANSLATION -> "onboarding_translation"
      [] s = ONBOARDING_DENOMINATION -> "onboarding_denomination"
      [] s = ONBOARDING_STYLE -> "onboarding_style"
      [] s = ONBOARDING_PACING -> "onboarding_pacing"
      [] s = ONBOARDING_ORDERING -> "onboarding_ordering"
      [] s = DISCUSSION -> "discussion_handler"
      [] OTHER -> "none"

Routed(s, update, handler) ==
    /\ Handles(s, update)
    /\ update = "text" => TextHandler(s) = handler

-----------------------------------------------------------------------------
(* start *)
Start ==
    /\ Routed(state, "start", "start")
    /\ state' = DRIVE_SETUP
    /\ last' = Log("start", <<>>, DRIVE_SETUP, <<Reply("welcome")>>, <<>>, <<>>)
    /\ tally' = [tally EXCEPT !.talked = FALSE]
    /\ UNCHANGED <<user_data, files, canCreate, client, faults, coveredDay>>
    /\ UNCHANGED <<limits, who, other>>

-----------------------------------------------------------------------------
(* What a handler run leaves behind.  A handler that raises returns nothing:
   the ConversationHandler keeps the conversation in the state it was in;
   what the handler wrote to user_data and to the store before stays. *)

RAISED == "RAISED"

Outcome(ret, ud, fs, log) ==
    [ret |-> ret, user_data |-> ud, files |-> fs, log |-> log]

Apply(r) ==
    /\ state' = IF r.ret = RAISED THEN state ELSE r.ret
    /\ user_data' = r.user_data
    /\ files' = r.files
    /\ last' = r.log
    /\ coveredDay' = IF r.ret = READING THEN r.log.day ELSE coveredDay
    /\ tally' = Tally(tally, r.log)
    /\ UNCHANGED <<canCreate, client, limits, who, other>>

(* the model's bound on failing adapter calls: n more of them *)
Failing(n) ==
    /\ faults + n <= limits.faults
    /\ faults' = faults + n

Bad(ok) == IF ok THEN 0 ELSE 1

(* what an adapter call may do while the bound allows one more failure *)
Oks == IF faults < limits.faults THEN BOOLEAN ELSE {TRUE}

Errs(errors) == IF faults < limits.faults THEN errors \cup {NoErr} ELSE {NoErr}

Err(e) == IF e = NoErr THEN 0 ELSE 1

(* what a request to the provider may do: without a client none is sent *)
GenOks == IF client THEN Oks ELSE {TRUE}

(* the error of a failing write outside the probe: its text is not looked at *)
Failures == {ErrOther}

-----------------------------------------------------------------------------
(* drive_setup_handler *)

(* what the user pastes as folder id: the first user the id of the shared
   folder, with blanks around it, or an id that does not exist; the second
   user the id of the other folder *)
FolderTexts ==
    IF who = "A" THEN {<<" ", "f1", " ">>, <<"nx">>} ELSE {<<"f2">>}

LowerWord(w) ==
    CASE w = "Service" -> "service"
      [] w = "Accounts" -> "accounts"
      [] w = "Quota" -> "quota"
      [] w = "Permission" -> "permission"
      [] OTHER -> w

(* str(e).lower() *)
Lower(msg) == [i \in 1..Len(msg) |-> LowerWord(msg[i])]

(* phrase in msg *)
Contains(msg, phrase) ==
    \E i \in 1..(Len(msg) - Len(phrase) + 1) :
        SubSeq(msg, i, i + Len(phrase) - 1) = phrase

(* the match made on str(e) as it is, not lowered *)
IsQuotaError_CaseSensitive(e) ==
    \/ Contains(e, <<"quota">>)
    \/ Contains(e, <<"service", "accounts", "do", "not", "have", "storage">>)

(* "quota" in err_str or "service accounts do not have storage" in err_str *)
IsQuotaError(e) ==
    LET err_str == Lower(e)
    IN  \/ Contains(err_str, <<"quota">>)
        \/ Contains(err_str,
                    <<"service", "accounts", "do", "not", "have", "storage">>)

(* the three files the "Action Required" reply asks the user to create *)
QuotaGuidanceNames == {"profile.yaml", "reading_plan.yaml", "chat_history.yaml"}

QuotaGuidance == [Reply("action_required") EXCEPT !.names = QuotaGuidanceNames]

(* the reply built from err_str, the lowered text *)
WriteErrorReply_Lowered(e) == [Reply("write_error") EXCEPT !.err = Lower(e)]

WriteErrorReply(e) == [Reply("write_error") EXCEPT !.err = e]

(* the model's bound on document ids: a write that would create a file is
   taken only while an id is free *)
WithinFiles(fs, file_id, found) ==
    file_id # None \/ found # None \/ Ids \ DOMAIN fs # {}

(* the test left out: every profile.yaml found counts as a profile *)
IsPopulated_Always(profile_data) == TRUE

(* the test inverted: if not profile_data *)
IsPopulated_Inverted(profile_data) == ~Truthy(profile_data)

(* if profile_data: *)
IsPopulated(profile_data) == Truthy(profile_data)

(* the branch taken when a profile.yaml was found: populated, or a placeholder *)
SetupFoundProfile(text, okList, profile_id, profile_data) ==
    LET ud == [user_data EXCEPT !.drive_folder_id = Strip(text)]
        calls == <<ListCall(Strip(text), okList),
                   StoreCall("get_file_id_by_name", ProfileName, None, profile_id),
                   StoreCall("read_yaml_file", ProfileName, profile_id,
                             IF Truthy(profile_data) THEN profile_id ELSE None)>>
    IN  IF IsPopulated(profile_data)
        THEN Outcome(IDLE, ud, files,
                     Log("drive_setup_handler", text, IDLE,
                         <<Reply("welcome_back")>>, <<>>, calls))
        ELSE Outcome(ONBOARDING_LANGUAGE, ud, files,
                     Log("drive_setup_handler", text, ONBOARDING_LANGUAGE,
                         <<Ask("access_confirmed_empty_profile", "language")>>,
                         <<>>, calls))

(* the branch taken when no profile.yaml was found: the write probe *)
SetupProbe(text, okList, found, err, okDelete) ==
    LET folder_id == Strip(text)
        ud == [user_data EXCEPT !.drive_folder_id = folder_id]
        w == WriteYamlFile(files, canCreate, folder_id, ProbeName,
                           [test |-> "data"], None, found, err)
        calls == <<ListCall(folder_id, okList),
                   StoreCall("get_file_id_by_name", ProfileName, None, None),
                   WriteCall(ProbeName, None, w)>>
        after == IF w.id # None THEN DeleteFile(w.files, w.id, okDelete)
                 ELSE w.files
        deleted == IF w.id # None
                   THEN <<StoreCall("delete_file", ProbeName, w.id,
                                    IF okDelete THEN w.id ELSE None)>>
                   ELSE <<>>
    IN  IF ~w.raised
        THEN Outcome(ONBOARDING_LANGUAGE, ud, after,
                     Log("drive_setup_handler", text, ONBOARDING_LANGUAGE,
                         <<Ask("access_confirmed", "language")>>, <<>>,
                         calls \o deleted))
        ELSE IF IsQuotaError(w.err)
        THEN Outcome(DRIVE_SETUP, ud, w.files,
                     Log("drive_setup_handler", text, DRIVE_SETUP,
                         <<QuotaGuidance>>, <<>>, calls))
        ELSE Outcome(DRIVE_SETUP, ud, w.files,
                     Log("drive_setup_handler", text, DRIVE_SETUP,
                         <<WriteErrorReply(w.err)>>, <<>>, calls))

DriveSetupHandler ==
    /\ Routed(state, "text", "drive_setup_handler")
    /\ \E text \in FolderTexts, okList, okLookup \in Oks :
        \E profile_id \in GetFileIdByName(files, Strip(text), ProfileName,
                                          okLookup) :
          IF profile_id # None
          THEN \E okRead \in Oks :
                 /\ Failing(Bad(okList) + Bad(okLookup) + Bad(okRead))
                 /\ Apply(SetupFoundProfile(text, okList, profile_id,
                             ReadYamlFile(files, profile_id, okRead)))
          ELSE \E okFind, okDelete \in Oks, err \in Errs(WriteErrors) :
                 \E found \in GetFileIdByName(files, Strip(text), ProbeName,
                                              okFind) :
                    /\ Failing(Bad(okList) + Bad(okLookup) + Bad(okFind)
                               + Err(err) + Bad(okDelete))
                    /\ WithinFiles(files, None, found)
                    /\ Apply(SetupProbe(text, okList, found, err, okDelete))

-----------------------------------------------------------------------------
(* onboarding_language .. onboarding_pacing *)

LanguageTexts == {"English"}
TranslationTexts == {"ESV"}
DenominationTexts == {"Baptist"}
StyleTexts == {"Casual"}
PacingTexts == {"1 chapter/day"}
OrderingTexts == {"Canonical"}

OnboardingLanguage ==
    /\ Routed(state, "text", "onboarding_language")
    /\ Failing(0)
    /\ \E text \in LanguageTexts :
         Apply(Outcome(ONBOARDING_TRANSLATION,
                       [user_data EXCEPT !.language = text], files,
                       Log("onboarding_language", text, ONBOARDING_TRANSLATION,
                           <<Ask("great", "translation")>>, <<>>, <<>>)))

OnboardingTranslation ==
    /\ Routed(state, "text", "onboarding_translation")
    /\ Failing(0)
    /\ \E text \in TranslationTexts :
         Apply(Outcome(ONBOARDING_DENOMINATION,
                       [user_data EXCEPT !.translation = text], files,
                       Log("onboarding_translation", text,
                           ONBOARDING_DENOMINATION,
                           <<Ask("background", "denomination")>>, <<>>, <<>>)))

OnboardingDenomination ==
    /\ Routed(state, "text", "onboarding_denomination")
    /\ Failing(0)
    /\ \E text \in DenominationTexts :
         Apply(Outcome(ONBOARDING_STYLE,
                       [user_data EXCEPT !.denomination = text], files,
                       Log("onboarding_denomination", text, ONBOARDING_STYLE,
                           <<Ask("communication", "style")>>, <<>>, <<>>)))

OnboardingStyle ==
    /\ Routed(state, "text", "onboarding_style")
    /\ Failing(0)
    /\ \E text \in StyleTexts :
         Apply(Outcome(ONBOARDING_PACING,
                       [user_data EXCEPT !.style = text], files,
                       Log("onboarding_style", text, ONBOARDING_PACING,
                           <<Ask("pacing", "pacing")>>, <<>>, <<>>)))

OnboardingPacing ==
    /\ Routed(state, "text", "onboarding_pacing")
    /\ Failing(0)
    /\ \E text \in PacingTexts :
         Apply(Outcome(ONBOARDING_ORDERING,
                       [user_data EXCEPT !.pacing = text], files,
                       Log("onboarding_pacing", text, ONBOARDING_ORDERING,
                           <<Ask("finally", "ordering")>>, <<>>, <<>>)))

-----------------------------------------------------------------------------
(* onboarding_ordering: save the profile, generate and save the first plan *)

(* a profile that starts counting at day 0 *)
ProfileData_DayZero(ud) ==
    [language |-> ud.language, translation |-> ud.translation,
     denomination |-> ud.denomination, style |-> ud.style,
     pacing |-> ud.pacing, ordering |-> ud.ordering, current_day |-> 0]

(* profile_data *)
ProfileData(ud) ==
    [language |-> ud.language, translation |-> ud.translation,
     denomination |-> ud.denomination, style |-> ud.style,
     pacing |-> ud.pacing, ordering |-> ud.ordering, current_day |-> FirstDay]

(* plan_data *)
PlanData(plan_text) == [generated_at |-> "now", plan |-> plan_text]

(* the first write: profile.yaml, looked up by name *)
SaveProfile(ud, found1, err1) ==
    WriteYamlFile(files, canCreate, ud.drive_folder_id, ProfileName,
                  ProfileData(ud), None, found1, err1)

OnboardingOrderingRun(text, found1, err1, plan_text, found2, err2) ==
    LET ud == [user_data EXCEPT !.ordering = text]
        folder_id == ud.drive_folder_id
        w1 == SaveProfile(ud, found1, err1)
        ai == <<GenerateReadingPlan(ProfileData(ud), plan_text)>>
        w2 == WriteYamlFile(w1.files, canCreate, folder_id, PlanName,
                            PlanData(plan_text), None, found2, err2)
        c1 == <<WriteCall(ProfileName, None, w1)>>
        c2 == <<WriteCall(PlanName, None, w2)>>
    IN  IF w1.raised
        THEN Outcome(RAISED, ud, w1.files,
                     Log("onboarding_ordering", text, RAISED, <<>>, <<>>, c1))
        ELSE IF w2.raised
        THEN Outcome(RAISED, ud, w2.files,
                     Log("onboarding_ordering", text, RAISED,
                         <<Reply("generating")>>, ai, c1 \o c2))
        ELSE Outcome(IDLE, ud, w2.files,
                     Log("onboarding_ordering", text, IDLE,
                         <<Reply("generating"), Reply("setup_complete")>>, ai,
                         c1 \o c2))

OnboardingOrdering ==
    /\ Routed(state, "text", "onboarding_ordering")
    /\ \E text \in OrderingTexts, okFind1, okFind2 \in Oks,
          err1, err2 \in Errs(Failures), answer \in PlanTexts,
          okGen \in GenOks :
        \E found1 \in GetFileIdByName(files, user_data.drive_folder_id,
                                      ProfileName, okFind1) :
           /\ WithinFiles(files, None, found1)
           /\ Failing(Bad(okFind1) + Err(err1) + Bad(okGen) + Bad(okFind2)
                      + Err(err2))
           /\ LET ud == [user_data EXCEPT !.ordering = text]
                  w1 == SaveProfile(ud, found1, err1)
              IN  \E found2 \in GetFileIdByName(w1.files, ud.drive_folder_id,
                                                PlanName, okFind2) :
                    /\ WithinFiles(w1.files, None, found2)
                    /\ Apply(OnboardingOrderingRun(text, found1, err1,
                              GenerateResponse(client, okGen, answer, "plan"),
                              found2, err2))

-----------------------------------------------------------------------------
(* read_command: today's reading; the plan is extended when it does not
   cover the current day *)

(* f"Day {current_day}:" in plan_body *)
HasLabel(plan_body, day, sep) ==
    \E i \in 1..Len(plan_body) :
        plan_body[i].day = day /\ plan_body[i].sep = sep

(* the test the extension is skipped on *)
CoversDay(plan_body, day) ==
    HasLabel(plan_body, day, ":") \/ HasLabel(plan_body, day, " ")

(* the extension request: generate_response(extension_prompt) *)
ExtensionRequest(current_day, text) ==
    [fn |-> "generate_response", from |-> current_day,
     to |-> current_day + ExtensionSpan, history |-> <<>>, text |-> text]

(* plan_body = new_plan_part: the new part replaces the body *)
ExtendPlan_Replace(plan_body, new_plan_part) == new_plan_part

(* plan_body += f"\n\n{new_plan_part}" *)
ExtendPlan(plan_body, new_plan_part) == plan_body \o <<Blank>> \o new_plan_part

(* the extraction request and get_bible_text: one generate_response each *)
ExtractionRequest(current_day, text) ==
    [fn |-> "generate_response", from |-> current_day, to |-> current_day,
     history |-> <<>>, text |-> text]

GetBibleText(reference, text) ==
    [fn |-> "get_bible_text", from |-> 0, to |-> 0, history |-> <<>>,
     text |-> text]

(* reading_ref = reading_ref.strip(), left as it came *)
ReadingRef_Untrimmed(ref) == ref

(* reading_ref = reading_ref.strip() *)
ReadingRef(ref) == Strip(ref)

(* the part of read_command that follows a plan with a non-empty body *)
ReadPlan(ud, profile, plan_id, plan_data, calls, new_part, err, ref, scripture) ==
    LET current_day == Get(profile, "current_day", FirstDay)
        covered == CoversDay(plan_data.plan, current_day)
        plan_body == IF covered THEN plan_data.plan
                     ELSE ExtendPlan(plan_data.plan, new_part)
        w == WriteYamlFile(files, canCreate, ud.drive_folder_id, PlanName,
                           Put(plan_data, "plan", plan_body), plan_id, None, err)
        ext == IF covered THEN <<>> ELSE <<ExtensionRequest(current_day, new_part)>>
        wc == IF covered THEN <<>> ELSE <<WriteCall(PlanName, plan_id, w)>>
        told == IF covered THEN <<>> ELSE <<Reply("plan_ended")>>
        reading_ref == ReadingRef(ref)
    IN  IF ~covered /\ w.raised
        THEN Outcome(RAISED, ud, w.files,
                     LogDay("read_command", <<>>, RAISED, told, ext,
                            calls \o wc, current_day))
        ELSE Outcome(READING,
                     [ud EXCEPT !.current_reading_ref = reading_ref,
                                !.current_scripture = scripture],
                     IF covered THEN files ELSE w.files,
                     LogDay("read_command", <<>>, READING,
                            told \o <<Reply("reading")>>,
                            ext \o <<ExtractionRequest(current_day, ref),
                                     GetBibleText(reading_ref, scripture)>>,
                            calls \o wc, current_day))

ReadCommandRun(file_id, okRead, plan_id, okReadPlan, new_part, err, ref, scripture) ==
    LET folder_id == user_data.drive_folder_id
        profile == ReadYamlFile(files, file_id, okRead)
        ud == [user_data EXCEPT !.profile = profile]
        plan_data == ReadYamlFile(files, plan_id, okReadPlan)
        c1 == <<StoreCall("get_file_id_by_name", ProfileName, None, file_id)>>
        c2 == c1 \o <<StoreCall("read_yaml_file", ProfileName, file_id,
                                IF Truthy(profile) THEN file_id ELSE None)>>
        c4 == c2 \o <<StoreCall("get_file_id_by_name", PlanName, None, plan_id),
                      StoreCall("read_yaml_file", PlanName, plan_id,
                                IF Truthy(plan_data) THEN plan_id ELSE None)>>
        stop(tag, ud1, calls) ==
            Outcome(END, ud1, files,
                    Log("read_command", <<>>, END, <<Reply(tag)>>, <<>>, calls))
    IN  IF folder_id = NoFolder THEN stop("run_start", user_data, <<>>)
        ELSE IF file_id = None THEN stop("profile_not_found", user_data, c1)
        ELSE IF ~Truthy(profile) THEN stop("error_reading_profile", user_data, c2)
        ELSE IF ~Truthy(plan_data) \/ Get(plan_data, "plan", <<>>) = <<>>
        THEN stop("plan_empty_or_missing", ud, c4)
        ELSE ReadPlan(ud, profile, plan_id, plan_data, c4, new_part, err, ref,
                      scripture)

(* the model's bound on the plan body: it is extended while it is short *)
WithinPlan(fs, plan_id) ==
    plan_id \in DOMAIN fs /\ "plan" \in DOMAIN fs[plan_id].data
        => Len(fs[plan_id].data.plan) <= limits.plan

ReadCommand ==
    /\ Routed(state, "read", "read_command")
    /\ \E okFind, okRead, okFindPlan, okReadPlan \in Oks, err \in Errs(Failures),
          ref \in RefTexts, scripture \in ScriptureTexts,
          okExt, okRef, okText \in GenOks :
        \E file_id \in GetFileIdByName(files, user_data.drive_folder_id,
                                       ProfileName, okFind),
           plan_id \in GetFileIdByName(files, user_data.drive_folder_id,
                                       PlanName, okFindPlan) :
          LET day == Get(ReadYamlFile(files, file_id, TRUE), "current_day",
                         FirstDay)
          IN  \E new_part \in ExtensionTexts(day) :
                /\ Failing(Bad(okFind) + Bad(okRead) + Bad(okFindPlan)
                           + Bad(okReadPlan) + Err(err) + Bad(okExt)
                           + Bad(okRef) + Bad(okText))
                /\ WithinPlan(files, plan_id)
                /\ Apply(ReadCommandRun(file_id, okRead, plan_id, okReadPlan,
                        GenerateResponse(client, okExt, new_part, "plan"), err,
                        GenerateResponse(client, okRef, ref, "ref"),
                        GenerateResponse(client, okText, scripture, "text")))

-----------------------------------------------------------------------------
(* done_command: advance the day, start an empty chat history *)

(* a profile rebuilt with the day alone: the other fields are lost *)
AdvanceDay_DayOnly(profile) ==
    [current_day |-> Get(profile, "current_day", FirstDay) + 1]

(* profile['current_day'] = profile.get('current_day', 1) + 1 *)
AdvanceDay(profile) ==
    Put(profile, "current_day", Get(profile, "current_day", FirstDay) + 1)

DoneCommandRun(file_id, okRead, err) ==
    LET folder_id == user_data.drive_folder_id
        profile == ReadYamlFile(files, file_id, okRead)
        calls == <<StoreCall("get_file_id_by_name", ProfileName, None, file_id),
                   StoreCall("read_yaml_file", ProfileName, file_id,
                             IF Truthy(profile) THEN file_id ELSE None)>>
        w == WriteYamlFile(files, canCreate, folder_id, ProfileName,
                           AdvanceDay(profile), file_id, None, err)
    IN  IF profile = NoneData
        THEN \* None['current_day']: TypeError
             Outcome(RAISED, user_data, files,
                     Log("done_command", <<>>, RAISED, <<>>, <<>>, calls))
        ELSE IF w.raised
        THEN Outcome(RAISED, user_data, w.files,
                     LogDay("done_command", <<>>, RAISED, <<>>, <<>>,
                            calls \o <<WriteCall(ProfileName, file_id, w)>>,
                            Get(profile, "current_day", FirstDay)))
        ELSE Outcome(DISCUSSION,
                     [user_data EXCEPT !.has_chat_history = TRUE,
                                       !.chat_history = <<>>],
                     w.files,
                     LogDay("done_command", <<>>, DISCUSSION,
                            <<Reply("great_job")>>, <<>>,
                            calls \o <<WriteCall(ProfileName, file_id, w)>>,
                            Get(profile, "current_day", FirstDay)))

(* the model's bound on the day counter *)
WithinDays(fs, file_id) ==
    file_id \in DOMAIN fs
        => Get(fs[file_id].data, "current_day", FirstDay) < limits.day

DoneCommand ==
    /\ Routed(state, "done", "done_command")
    /\ \E okFind, okRead \in Oks, err \in Errs(Failures) :
        \E file_id \in GetFileIdByName(files, user_data.drive_folder_id,
                                       ProfileName, okFind) :
           /\ Failing(Bad(okFind) + Bad(okRead) + Err(err))
           /\ WithinDays(files, file_id)
           /\ Apply(DoneCommandRun(file_id, okRead, err))

-----------------------------------------------------------------------------
(* discussion_handler: one turn of the discussion *)

Turn(role, text) == [role |-> role, parts |-> <<text>>]

(* history[:10]: the oldest turns are kept *)
KeepWindow_Oldest(history) ==
    IF Len(history) > HistoryLimit THEN SubSeq(history, 1, HistoryLimit)
    ELSE history

(* history[-9:]: one turn fewer than the limit is kept *)
KeepWindow_Nine(history) ==
    IF Len(history) > HistoryLimit
    THEN SubSeq(history, Len(history) - HistoryLimit + 2, Len(history))
    ELSE history

(* if len(history) > 10: history = history[-10:] *)
KeepWindow(history) ==
    IF Len(history) > HistoryLimit
    THEN SubSeq(history, Len(history) - HistoryLimit + 1, Len(history))
    ELSE history

(* history.append(user turn); history.append(model turn) *)
AppendTurns(history, user_input, response) ==
    history \o <<Turn("user", user_input), Turn("model", response)>>

(* the history the turn starts from: memory, else the Drive, else [] *)
StartingHistory(ud, chat_file_id, data) ==
    IF ud.has_chat_history THEN ud.chat_history
    ELSE IF chat_file_id # None
    THEN IF Truthy(data) THEN Get(data, "history", <<>>) ELSE <<>>
    ELSE <<>>

(* discuss_reading(user_input, history, ...) with the list the handler goes on
   to append to: the provider sees the new user input in the history *)
DiscussReading_Appended(user_input, history, response) ==
    [fn |-> "discuss_reading", from |-> 0, to |-> 0,
     history |-> history \o <<Turn("user", user_input)>>, text |-> response]

(* discuss_reading(user_input, list(history), reading_context, profile) *)
DiscussReading(user_input, history, response) ==
    [fn |-> "discuss_reading", from |-> 0, to |-> 0, history |-> history,
     text |-> response]

(* chat_data *)
ChatData(chat_file_id, history) ==
    [created |-> IF chat_file_id = None THEN "now" ELSE "existing",
     history |-> history]

DiscussionHandlerRun(user_input, chat_file_id, okRead, response, found, err) ==
    LET folder_id == user_data.drive_folder_id
        data == ReadYamlFile(files, chat_file_id, okRead)
        before == StartingHistory(user_data, chat_file_id, data)
        history == KeepWindow(AppendTurns(before, user_input, response))
        ud == [user_data EXCEPT !.has_chat_history = TRUE,
                                !.chat_history = history]
        w == WriteYamlFile(files, canCreate, folder_id, HistoryName,
                           ChatData(chat_file_id, history), chat_file_id, found,
                           err)
        calls == <<StoreCall("get_file_id_by_name", HistoryName, None,
                             chat_file_id),
                   WriteCall(HistoryName, chat_file_id, w)>>
        ai == <<DiscussReading(user_input, before, response)>>
    IN  IF w.raised
        THEN Outcome(RAISED, ud, w.files,
                     Log("discussion_handler", user_input, RAISED, <<>>, ai,
                         calls))
        ELSE Outcome(DISCUSSION, ud, w.files,
                     Log("discussion_handler", user_input, DISCUSSION,
                         <<Reply("response")>>, ai, calls))

DiscussionHandler ==
    /\ Routed(state, "text", "discussion_handler")
    /\ \E user_input \in UserTexts(user_data.chat_history),
          response \in ModelTexts,
          okFind, okFindAgain \in Oks, err \in Errs(Failures),
          okGen \in GenOks :
        \E chat_file_id \in GetFileIdByName(files, user_data.drive_folder_id,
                                            HistoryName, okFind),
           found \in GetFileIdByName(files, user_data.drive_folder_id,
                                     HistoryName, okFindAgain) :
           /\ Failing(Bad(okFind) + Bad(okFindAgain) + Err(err) + Bad(okGen))
           /\ WithinFiles(files, chat_file_id, found)
           /\ Apply(DiscussionHandlerRun(user_input, chat_file_id, TRUE,
                        GenerateResponse(client, okGen, response, "text"),
                        found, err))

-----------------------------------------------------------------------------
(* What the user does in the folder.  start and the "Action Required" reply
   tell the user of a personal account, in whose folder the bot may create
   nothing, to create three empty files there. *)
PlaceholderNames == <<"profile.yaml", "reading_plan.yaml", "chat_history.yaml">>

Placeholder(name) == [folder |-> SharedFolder, name |-> name, data |-> EmptyData]

UserCreatesPlaceholders ==
    /\ state = DRIVE_SETUP
    /\ ~canCreate
    /\ \A i \in InFolder(files, SharedFolder), k \in 1..3 :
          files[i].name # PlaceholderNames[k]
    /\ DOMAIN files = {}
    /\ files' = [k \in 1..3 |-> Placeholder(PlaceholderNames[k])]
    /\ last' = Log("user_creates_placeholders", <<>>, state, <<>>, <<>>, <<>>)
    /\ UNCHANGED <<state, user_data, canCreate, client, faults, coveredDay>>
    /\ UNCHANGED <<tally, limits, who, other>>

(* The folder is the user's: the profile may be gone when the bot looks for
   it again ("Profile not found. Please run /start.").  The removal counts
   among the failures the model bounds. *)
UserDeletesProfile ==
    /\ state \in {IDLE, READING}
    /\ Failing(1)
    /\ \E i \in InFolder(files, SharedFolder) :
          /\ files[i].name = ProfileName
          /\ files' = [j \in DOMAIN files \ {i} |-> files[j]]
    /\ last' = Log("user_deletes_profile", <<>>, state, <<>>, <<>>, <<>>)
    /\ UNCHANGED <<state, user_data, canCreate, client, coveredDay>>
    /\ UNCHANGED <<tally, limits, who, other>>

-----------------------------------------------------------------------------
(* cancel and help_command: the fallbacks *)
Cancel ==
    /\ Routed(state, "cancel", "cancel")
    /\ state' = END
    /\ last' = Log("cancel", <<>>, END, <<Reply("cancelled")>>, <<>>, <<>>)
    /\ UNCHANGED <<user_data, files, canCreate, client, faults, coveredDay>>
    /\ UNCHANGED <<tally, limits, who, other>>

(* help_command replies with the list of commands and returns None: the
   conversation keeps its state, and nothing of the session changes *)
HelpCommand ==
    /\ Routed(state, "help", "help_command")
    /\ UNCHANGED vars

Next ==
    \/ Start
    \/ DriveSetupHandler
    \/ OnboardingLanguage
    \/ OnboardingTranslation
    \/ OnboardingDenomination
    \/ OnboardingStyle
    \/ OnboardingPacing
    \/ OnboardingOrdering
    \/ ReadCommand
    \/ DoneCommand
    \/ DiscussionHandler
    \/ Cancel
    \/ HelpCommand
    \/ UserCreatesPlaceholders
    \/ UserDeletesProfile

Spec == Init /\ [][Next]_vars

-----------------------------------------------------------------------------
(* The days of a reader whose store and provider do not fail: the provider
   answers a plan request with the labels of the seven days it is asked for
   (ai_agent.py: "Create a plan for the first 7 days"; bot.py: "Day d to
   Day d + 6"), and the reader goes on to the days of the second week. *)
InitLong ==
    /\ Boot
    /\ canCreate = TRUE
    /\ client = TRUE
    /\ limits = Limits(MaxFiles, 0, LongDays, LongPlanLen, ExtensionSpan + 1)

NextLong ==
    \/ Start
    \/ DriveSetupHandler
    \/ OnboardingLanguage
    \/ OnboardingTranslation
    \/ OnboardingDenomination
    \/ OnboardingStyle
    \/ OnboardingPacing
    \/ OnboardingOrdering
    \/ ReadCommand
    \/ DoneCommand
    \/ DiscussionHandler
    \/ Cancel

SpecLong == InitLong /\ [][NextLong]_vars

-----------------------------------------------------------------------------
(* The same reader with a store that fails now and then: two of the calls
   of the run may fail (a listing that answers [], a write that raises, a
   request of the provider that is answered with the apology). *)
InitFlaky ==
    /\ Boot
    /\ canCreate = TRUE
    /\ client = TRUE
    /\ limits = Limits(MaxFiles, FlakyFaults, LongDays, LongPlanLen,
                       ExtensionSpan + 1)

NextFlaky ==
    \/ Start
    \/ DriveSetupHandler
    \/ OnboardingLanguage
    \/ OnboardingTranslation
    \/ OnboardingDenomination
    \/ OnboardingStyle
    \/ OnboardingPacing
    \/ OnboardingOrdering
    \/ ReadCommand
    \/ DoneCommand

SpecFlaky == InitFlaky /\ [][NextFlaky]_vars

-----------------------------------------------------------------------------
(* Two users.  The ConversationHandler keeps a state per user and the
   Application a user_data per user; BibleBot holds nothing else but the
   store and the provider (bot.py 38-44).  The updates of the two users are
   dispatched one at a time, in any order: Switch hands the next update to
   the other user's session.  Each user has shared a folder of their own.
   No call fails, and each user goes through one conversation. *)
Switch ==
    /\ state' = other.state
    /\ user_data' = other.user_data
    /\ coveredDay' = other.coveredDay
    /\ tally' = other.tally
    /\ other' = Parked(state, user_data, coveredDay, tally)
    /\ who' = IF who = "A" THEN "B" ELSE "A"
    /\ last' = Log("switch", <<>>, other.state, <<>>, <<>>, <<>>)
    /\ UNCHANGED <<files, canCreate, client, faults, limits>>

InitPair ==
    /\ Boot
    /\ canCreate = TRUE
    /\ client = TRUE
    /\ limits = Limits(PairFiles, 0, MaxDay, MaxPlanLen, 1)

NextPair ==
    \/ Start
    \/ DriveSetupHandler
    \/ OnboardingLanguage
    \/ OnboardingTranslation
    \/ OnboardingDenomination
    \/ OnboardingStyle
    \/ OnboardingPacing
    \/ OnboardingOrdering
    \/ ReadCommand
    \/ DoneCommand
    \/ DiscussionHandler
    \/ Switch

SpecPair == InitPair /\ [][NextPair]_vars

-----------------------------------------------------------------------------
(* Properties.  A step of a handler is told by the log it leaves: every
   handler but help_command writes its own name to last. *)

ProfileDocs(fs) == {i \in DOMAIN fs : fs[i].name = ProfileName}
PlanDocs(fs) == {i \in DOMAIN fs : fs[i].name = PlanName}
HistoryDocs(fs) == {i \in DOMAIN fs : fs[i].name = HistoryName}

(* the extension requests and the plan writes a handler run logged *)
ExtensionRequests(log) ==
    {i \in 1..Len(log.ai) :
        log.ai[i].fn = "generate_response" /\ log.ai[i].to = log.ai[i].from + 6}

PlanWrites(log) ==
    {i \in 1..Len(log.store) :
        log.store[i].call = "write_yaml_file" /\ log.store[i].name = PlanName}

(* "Day d:" or "Day d " occurs in the body *)
HasDayLabel(body, d) ==
    \E i \in 1..Len(body) : body[i].day = d /\ body[i].sep \in {":", " "}

(* C1: the current_day of a persisted profile is at least 1 and, from one
   state to the next, never gets smaller as long as the document exists,
   whatever the event and whichever store call fails or answers nothing. *)
C1_CurrentDayNeverDecreases ==
    [][\A i \in ProfileDocs(files) \cap ProfileDocs(files') :
          "current_day" \in DOMAIN files[i].data
          => /\ "current_day" \in DOMAIN files'[i].data
             /\ files'[i].data.current_day >= files[i].data.current_day
             /\ files'[i].data.current_day >= 1]_vars

(* C2: a /done handled in READING whose store calls succeed returns
   DISCUSSION, and a /done that returns DISCUSSION was handled in READING,
   wrote the profile through the id it resolved (no file created, no other
   file touched) with current_day one more than stored and the other fields
   as they were, and left the session's chat history empty. *)
C2_MarkDoneAdvancesDay ==
    [][last'.op = "done_command" =>
        /\ (faults' = faults /\ ProfileDocs(files) # {})
              => last'.ret = DISCUSSION
        /\ last'.ret = DISCUSSION =>
             LET id == last'.store[1].result
                 w == last'.store[3]
             IN  /\ state = READING /\ state' = DISCUSSION
                 /\ id \in ProfileDocs(files)
                 /\ w.call = "write_yaml_file" /\ w.name = ProfileName
                 /\ w.file_id = id /\ w.result = id /\ ~w.created
                 /\ DOMAIN files' = DOMAIN files
                 /\ \A j \in DOMAIN files \ {id} : files'[j] = files[j]
                 /\ files'[id].name = ProfileName
                 /\ files'[id].folder = files[id].folder
                 /\ DOMAIN files'[id].data = DOMAIN files[id].data
                 /\ files'[id].data.current_day = files[id].data.current_day + 1
                 /\ \A k \in DOMAIN files[id].data \ {"current_day"} :
                        files'[id].data[k] = files[id].data[k]
                 /\ user_data'.has_chat_history
                 /\ user_data'.chat_history = <<>>]_vars

(* a /done has just moved the profile from day 1 to day 2 *)
C2_Witness ==
    /\ last.op = "done_command" /\ last.ret = DISCUSSION
    /\ state = DISCUSSION
    /\ files[last.store[1].result].data.current_day = 2
    /\ files[last.store[1].result].data.language = "English"

(* C3: the chat history of the session and of every persisted history
   document has at most 10 turns; right after a discussion turn its last two
   entries are the user turn with the input and the model turn with the
   provider's response, it is the last 10 turns (in order) of the history the
   turn started from followed by these two, and the document written holds
   the same window. *)
C3_HistoryWindow ==
    /\ Len(user_data.chat_history) <= 10
    /\ \A i \in HistoryDocs(files) :
          "history" \in DOMAIN files[i].data
             => Len(files[i].data.history) <= 10
    /\ last.op = "discussion_handler" =>
         LET window == user_data.chat_history
             n == Len(window)
             full == last.ai[1].history
                       \o <<[role |-> "user", parts |-> <<last.input>>],
                            [role |-> "model", parts |-> <<last.ai[1].text>>]>>
         IN  /\ n >= 2
             /\ window[n - 1] = [role |-> "user", parts |-> <<last.input>>]
             /\ window[n] = [role |-> "model", parts |-> <<last.ai[1].text>>]
             /\ n = IF Len(full) > 10 THEN 10 ELSE Len(full)
             /\ \A k \in 1..n : window[k] = full[Len(full) - n + k]
             /\ last.ret = DISCUSSION
                   => /\ last.store[2].result \in HistoryDocs(files)
                      /\ files[last.store[2].result].data.history = window

(* a turn that started from 10 turns, the first of them the opening
   question, and dropped the two oldest *)
C3_Witness ==
    /\ last.op = "discussion_handler" /\ last.ret = DISCUSSION
    /\ Len(last.ai[1].history) = 10
    /\ last.ai[1].history[1].parts = <<"What does this mean?">>
    /\ Len(user_data.chat_history) = 10
    /\ user_data.chat_history[1].parts = <<"Why?">>

(* C4: a read flow that reaches the coverage step issues no extension
   request and no plan write when the plan body already holds a label for
   the day, nor when the read flow before it ran the coverage step for the
   same day. *)
C4_CoverageIdempotent ==
    [][(last'.op = "read_command" /\ last'.day # 0) =>
        LET d == last'.day
            prior == files[last'.store[3].result].data.plan
        IN  (HasDayLabel(prior, d) \/ coveredDay = d)
               => /\ ExtensionRequests(last') = {}
                  /\ PlanWrites(last') = {}]_vars

(* C5: a read flow that finds no "Day d:" and no "Day d " in the plan body,
   d the stored current_day, issues exactly one extension request, for Day d
   to Day d+6, and writes the plan through the plan id it resolved; the
   write, when it succeeds, creates no file and leaves a body that is the
   whole prior body, the separator and the provider's new text, in a
   document otherwise as it was. *)
C5_ExtendsUncoveredDay ==
    [][(last'.op = "read_command" /\ last'.day # 0) =>
        LET d == last'.day
            plan_id == last'.store[3].result
            prior == files[plan_id].data.plan
            text == last'.ai[1].text
        IN  ~HasDayLabel(prior, d) =>
              /\ d = files[last'.store[1].result].data.current_day
              /\ ExtensionRequests(last') = {1}
              /\ last'.ai[1].from = d /\ last'.ai[1].to = d + 6
              /\ PlanWrites(last') = {5}
              /\ last'.store[5].file_id = plan_id
              /\ ~last'.store[5].raised =>
                   LET body == files'[plan_id].data.plan
                   IN  /\ ~last'.store[5].created
                       /\ DOMAIN files' = DOMAIN files
                       /\ \A j \in DOMAIN files \ {plan_id} :
                              files'[j] = files[j]
                       /\ Len(body) = Len(prior) + 1 + Len(text)
                       /\ SubSeq(body, 1, Len(prior)) = prior
                       /\ SubSeq(body, Len(prior) + 2, Len(body)) = text
                       /\ files'[plan_id].data.generated_at
                             = files[plan_id].data.generated_at]_vars

(* a read flow for day 2 has just appended "Day 2 ..." to a plan that held
   day 1 alone *)
C5_Witness ==
    /\ last.op = "read_command" /\ last.ret = READING /\ last.day = 2
    /\ PlanWrites(last) = {5}
    /\ files[last.store[3].result].data.plan
          = <<Label(1, ":"), Blank, Label(2, " ")>>

(* C6: a plan document with a non-empty body stays a plan document, and
   its body after any event begins with its body before: it is unchanged or
   extended at its end, never replaced or truncated. *)
C6_PlanAppendOnly ==
    [][\A i \in PlanDocs(files) :
          ("plan" \in DOMAIN files[i].data /\ files[i].data.plan # <<>>)
          => /\ i \in PlanDocs(files')
             /\ "plan" \in DOMAIN files'[i].data
             /\ Len(files'[i].data.plan) >= Len(files[i].data.plan)
             /\ SubSeq(files'[i].data.plan, 1, Len(files[i].data.plan))
                   = files[i].data.plan]_vars

(* C7: the sixth onboarding answer, given in a shared folder that holds no
   document and in which the bot may create files, with no store call
   failing, returns IDLE and leaves exactly two documents: a profile holding
   the six answers and current_day 1, and a plan whose text is the text of
   the one plan-generation call. *)
C7_OnboardingCompletes ==
    [][(/\ last'.op = "onboarding_ordering"
        /\ user_data.drive_folder_id = SharedFolder
        /\ InFolder(files, SharedFolder) = {}
        /\ canCreate
        /\ faults' = faults) =>
        /\ state = ONBOARDING_ORDERING /\ state' = IDLE /\ last'.ret = IDLE
        /\ user_data.language \in LanguageTexts
        /\ user_data.translation \in TranslationTexts
        /\ user_data.denomination \in DenominationTexts
        /\ user_data.style \in StyleTexts
        /\ user_data.pacing \in PacingTexts
        /\ last'.input \in OrderingTexts
        /\ Len(last'.ai) = 1 /\ last'.ai[1].fn = "generate_reading_plan"
        /\ Cardinality(ProfileDocs(files')) = 1
        /\ Cardinality(PlanDocs(files')) = 1
        /\ InFolder(files', SharedFolder)
              = ProfileDocs(files') \cup PlanDocs(files')
        /\ \A i \in ProfileDocs(files') :
              files'[i].data =
                 [language |-> user_data.language,
                  translation |-> user_data.translation,
                  denomination |-> user_data.denomination,
                  style |-> user_data.style,
                  pacing |-> user_data.pacing,
                  ordering |-> last'.input,
                  current_day |-> 1]
        /\ \A i \in PlanDocs(files') :
              files'[i].data.plan = last'.ai[1].text]_vars

(* onboarding has just completed in a folder that was empty: the plan holds
   the provider's "Day 1: ..." *)
C7_Witness ==
    /\ last.op = "onboarding_ordering" /\ state = IDLE /\ faults = 0
    /\ Cardinality(DOMAIN files) = 2
    /\ \E i \in PlanDocs(files) : files[i].data.plan = <<Label(1, ":")>>
    /\ \E i \in ProfileDocs(files) : files[i].data.current_day = 1

(* C8: a store-link submission that found no profile and whose probe write
   failed with "Service Accounts do not have storage quota", or with another
   message holding "quota" or "service accounts do not have storage" in
   either case, returned DRIVE_SETUP, asked no onboarding question and sent
   one guidance message, which names exactly three documents. *)
C8_QuotaGuidance ==
    (/\ last.op = "drive_setup_handler"
     /\ Len(last.store) >= 3
     /\ last.store[2].result = None
     /\ last.store[3].call = "write_yaml_file"
     /\ last.store[3].raised
     /\ last.store[3].err \in {ErrQuota, ErrQuotaWord, ErrNoStorage}) =>
        /\ last.ret = DRIVE_SETUP /\ state = DRIVE_SETUP
        /\ Len(last.replies) = 1
        /\ last.replies[1].asks = ""
        /\ Cardinality(last.replies[1].names) = 3
        /\ last.replies[1].names
              = {"profile.yaml", "reading_plan.yaml", "chat_history.yaml"}
        /\ Len(last.store) = 3

(* the probe has just failed with "Quota exceeded" *)
C8_Witness ==
    /\ last.op = "drive_setup_handler" /\ state = DRIVE_SETUP
    /\ Len(last.store) = 3
    /\ last.store[3].raised /\ last.store[3].err = ErrQuotaWord
    /\ last.replies[1].names # {}

(* C9: a store-link submission naming a folder whose profile documents all
   have content, with no store call failing, returns IDLE from DRIVE_SETUP:
   it asks no onboarding question, makes no write and no delete, and leaves
   every document as it was. *)
C9_PopulatedProfileGoesIdle ==
    [][(/\ last'.op = "drive_setup_handler"
        /\ faults' = faults
        /\ \E i \in InFolder(files, Strip(last'.input)) :
              files[i].name = ProfileName
        /\ \A i \in InFolder(files, Strip(last'.input)) :
              files[i].name = ProfileName => DOMAIN files[i].data # {}) =>
        /\ state = DRIVE_SETUP /\ state' = IDLE /\ last'.ret = IDLE
        /\ files' = files
        /\ \A k \in 1..Len(last'.store) :
              last'.store[k].call \notin {"write_yaml_file", "delete_file"}
        /\ \A k \in 1..Len(last'.replies) : last'.replies[k].asks = ""
        /\ user_data'.drive_folder_id = Strip(last'.input)]_vars

(* a returning user has just been welcomed back, the profile at day 2 *)
C9_Witness ==
    /\ last.op = "drive_setup_handler" /\ state = IDLE
    /\ last.replies = <<Reply("welcome_back")>>
    /\ \E i \in ProfileDocs(files) : files[i].data.current_day = 2

Onboarding ==
    {ONBOARDING_LANGUAGE, ONBOARDING_TRANSLATION, ONBOARDING_DENOMINATION,
     ONBOARDING_STYLE, ONBOARDING_PACING, ONBOARDING_ORDERING}

(* the transitions the specification lists *)
AllowedTransitions ==
    {<<END, DRIVE_SETUP>>,
     <<DRIVE_SETUP, ONBOARDING_LANGUAGE>>, <<DRIVE_SETUP, IDLE>>,
     <<ONBOARDING_LANGUAGE, ONBOARDING_TRANSLATION>>,
     <<ONBOARDING_TRANSLATION, ONBOARDING_DENOMINATION>>,
     <<ONBOARDING_DENOMINATION, ONBOARDING_STYLE>>,
     <<ONBOARDING_STYLE, ONBOARDING_PACING>>,
     <<ONBOARDING_PACING, ONBOARDING_ORDERING>>,
     <<ONBOARDING_ORDERING, IDLE>>,
     <<IDLE, READING>>, <<READING, DISCUSSION>>, <<DISCUSSION, READING>>}

(* C10: the state changes only along the listed transitions, or to END: by
   /cancel from any state, by an error outcome of the read flow from IDLE or
   DISCUSSION.  A /done is handled only in READING, a /read only in IDLE or
   DISCUSSION. *)
C10_ListedTransitions ==
    [][/\ state' # state =>
            \/ <<state, state'>> \in AllowedTransitions
            \/ state' = END /\ last'.op = "cancel"
            \/ state' = END /\ last'.op = "read_command"
                            /\ state \in {IDLE, DISCUSSION}
       /\ last'.op = "done_command" => state = READING
       /\ last'.op = "read_command" => state \in {IDLE, DISCUSSION}
       /\ last'.op = "start" => state = END
       /\ (state \in Onboarding /\ state' \in Onboarding /\ state' # state)
             => last'.op = TextHandler(state)]_vars

(* a /read taken from DISCUSSION has brought the session back to READING *)
C10_Witness ==
    /\ state = READING /\ last.op = "read_command"
    /\ user_data.has_chat_history
    /\ coveredDay = 2

(* the handlers of the final onboarding answer, /read, /done and a
   discussion turn *)
Transitions ==
    {"onboarding_ordering", "read_command", "done_command",
     "discussion_handler"}

(* C11: a final onboarding answer, /read, /done or discussion turn during
   which an adapter call raises returns the state the session was in, which
   stays the session's state, and sends the user a message: the handler
   does not raise. *)
C11_FailureConverted ==
    [][(/\ last'.op \in Transitions
        /\ \E k \in 1..Len(last'.store) : last'.store[k].raised) =>
        /\ last'.ret # RAISED
        /\ last'.ret = state /\ state' = state
        /\ last'.replies # <<>>]_vars

(* C12: a final onboarding answer, /read, /done or discussion turn that
   fails on a failing store call (it raises, or ends the session with an
   error) leaves every document and the state as they were. *)
C12_FailureLeavesNoTrace ==
    [][(/\ last'.op \in Transitions
        /\ faults' > faults
        /\ last'.ret \in {RAISED, END}) =>
        /\ files' = files
        /\ state' = state]_vars

(* C13: a store-link submission whose listing of the folder fails returns
   DRIVE_SETUP with the error in its reply, leaves user_data's folder id as
   it was and makes no store call after the listing. *)
C13_ListingFailureStops ==
    [][(/\ last'.op = "drive_setup_handler"
        /\ last'.store[1].call = "list_files_in_folder"
        /\ last'.store[1].err # NoErr) =>
        /\ state' = DRIVE_SETUP /\ last'.ret = DRIVE_SETUP
        /\ \E k \in 1..Len(last'.replies) :
              last'.replies[k].err = last'.store[1].err
        /\ user_data'.drive_folder_id = user_data.drive_folder_id
        /\ Len(last'.store) = 1]_vars

(* C14: no state holds a bot_test_permission.yaml document, and a
   store-link submission that found no profile and returned the first
   onboarding question made a probe write that created a document. *)
C14_ProbeLeavesNothing ==
    /\ \A i \in DOMAIN files : files[i].name # ProbeName
    /\ (/\ last.op = "drive_setup_handler"
        /\ last.ret = ONBOARDING_LANGUAGE
        /\ last.store[2].result = None) =>
          /\ last.store[3].call = "write_yaml_file"
          /\ last.store[3].name = ProbeName
          /\ last.store[3].created

(* C15: a store-link submission whose probe write fails returns
   DRIVE_SETUP; when the error holds neither "quota" nor "service accounts
   do not have storage" (in either case) its one reply quotes the error as
   it is, names no placeholder document and asks no question. *)
C15_GenericProbeFailure ==
    (/\ last.op = "drive_setup_handler"
     /\ Len(last.store) >= 3
     /\ last.store[3].call = "write_yaml_file"
     /\ last.store[3].raised) =>
        /\ last.ret = DRIVE_SETUP /\ state = DRIVE_SETUP
        /\ last.store[3].err \notin {ErrQuota, ErrQuotaWord, ErrNoStorage} =>
             /\ Len(last.replies) = 1
             /\ last.replies[1].tag = "write_error"
             /\ last.replies[1].err = last.store[3].err
             /\ last.replies[1].names = {}
             /\ last.replies[1].asks = ""

(* the probe has just failed with "Permission denied" in the shared folder *)
C15_Witness ==
    /\ last.op = "drive_setup_handler" /\ state = DRIVE_SETUP
    /\ Strip(last.input) = SharedFolder
    /\ Len(last.store) = 3
    /\ last.store[3].raised /\ last.store[3].err = <<"Permission", "denied">>
    /\ last.replies[1].err = <<"Permission", "denied">>

(* C16: a store-link submission naming a folder whose profile documents
   are all empty, with no store call failing, returns the first onboarding
   question from DRIVE_SETUP: it asks for the language, makes no write and
   no delete, and leaves every document as it was. *)
C16_EmptyProfileStartsOnboarding ==
    [][(/\ last'.op = "drive_setup_handler"
        /\ faults' = faults
        /\ \E i \in InFolder(files, Strip(last'.input)) :
              files[i].name = ProfileName
        /\ \A i \in InFolder(files, Strip(last'.input)) :
              files[i].name = ProfileName => DOMAIN files[i].data = {}) =>
        /\ state = DRIVE_SETUP /\ state' = ONBOARDING_LANGUAGE
        /\ last'.ret = ONBOARDING_LANGUAGE
        /\ Len(last'.replies) = 1 /\ last'.replies[1].asks = "language"
        /\ files' = files
        /\ \A k \in 1..Len(last'.store) :
              last'.store[k].call \notin {"write_yaml_file", "delete_file"}]_vars

(* the three empty files are in the folder and the language has just been
   asked for *)
C16_Witness ==
    /\ last.op = "drive_setup_handler" /\ state = ONBOARDING_LANGUAGE
    /\ Len(last.store) = 3 /\ last.store[3].call = "read_yaml_file"
    /\ Cardinality(DOMAIN files) = 3
    /\ \A i \in DOMAIN files : files[i].data = EmptyData

(* C17: /cancel is handled in every state of the conversation, ends it and
   changes no document; while no conversation is active the only handler
   that acts is start, which changes no document and no user_data: no
   /read, /done, answer or discussion text has an effect. *)
C17_CancelIsTerminal ==
    /\ [](state \in States => ENABLED Cancel)
    /\ [][/\ last'.op = "cancel" =>
               /\ state \in States /\ state' = END /\ last'.ret = END
               /\ files' = files
          /\ state = END =>
               /\ last'.op = "start"
               /\ files' = files /\ user_data' = user_data]_vars

(* a session cancelled while READING, the documents still there *)
C17_Witness ==
    /\ state = END /\ last.op = "cancel"
    /\ coveredDay = 1
    /\ ProfileDocs(files) # {} /\ PlanDocs(files) # {}
    /\ user_data.current_scripture # ""

(* the plan documents of the folder all have a body *)
PlanPresent(fs, folder) ==
    /\ \E i \in InFolder(fs, folder) : fs[i].name = PlanName
    /\ \A i \in InFolder(fs, folder) :
          fs[i].name = PlanName
             => "plan" \in DOMAIN fs[i].data /\ fs[i].data.plan # <<>>

(* the profile documents of the folder all have content *)
ProfilePresent(fs, folder) ==
    /\ \E i \in InFolder(fs, folder) : fs[i].name = ProfileName
    /\ \A i \in InFolder(fs, folder) :
          fs[i].name = ProfileName => DOMAIN fs[i].data # {}

(* the extraction requests a handler run logged: the one-day requests *)
ExtractionRequests(log) ==
    {i \in 1..Len(log.ai) :
        log.ai[i].fn = "generate_response" /\ log.ai[i].to = log.ai[i].from}

(* C18: a /read with a profile and a plan in the folder and no store call
   failing is handled in IDLE or DISCUSSION and returns READING; the
   session then holds the reference the provider gave for the profile's
   current_day, without its leading and trailing blanks, and the scripture
   text fetched after it; no profile document changes. *)
C18_ReadEntersReading ==
    [][(/\ last'.op = "read_command"
        /\ faults' = faults
        /\ ProfilePresent(files, user_data.drive_folder_id)
        /\ PlanPresent(files, user_data.drive_folder_id)) =>
        LET x == CHOOSE i \in ExtractionRequests(last') : TRUE
            ref == last'.ai[x].text
            kept == user_data'.current_reading_ref
        IN  /\ state \in {IDLE, DISCUSSION} /\ state' = READING
            /\ Cardinality(ExtractionRequests(last')) = 1
            /\ last'.ai[x].from
                  = files[last'.store[1].result].data.current_day
            /\ kept # <<>> => kept[1] # " " /\ kept[Len(kept)] # " "
            /\ \E a, b \in 0..Len(ref) :
                  /\ a + Len(kept) + b = Len(ref)
                  /\ \A k \in 1..a : ref[k] = " "
                  /\ \A k \in 1..b : ref[Len(ref) + 1 - k] = " "
                  /\ \A k \in 1..Len(kept) : kept[k] = ref[a + k]
            /\ last'.ai[x + 1].fn = "get_bible_text"
            /\ user_data'.current_scripture = last'.ai[x + 1].text
            /\ \A i \in ProfileDocs(files) :
                  i \in DOMAIN files' /\ files'[i] = files[i]]_vars

(* a /read has just cached "Genesis 1", which came with blanks around it *)
C18_Witness ==
    /\ last.op = "read_command" /\ state = READING
    /\ user_data.current_reading_ref = <<"Genesis", "1">>
    /\ user_data.current_scripture = "In the beginning..."
    /\ \E i \in 1..Len(last.ai) : last.ai[i].text = <<" ", "Genesis", "1", " ">>

(* C19: a /read that finds no plan document, or a plan document without
   plan text, or that is given an empty reference for the day, sends the
   "contact support" reply, ends the session and changes no document. *)
C19_NothingUsableEndsSession ==
    [][(/\ last'.op = "read_command"
        /\ Len(last'.store) >= 4
        /\ \/ last'.store[3].result = None
           \/ last'.store[4].result = None
           \/ Get(files[last'.store[3].result].data, "plan", <<>>) = <<>>
           \/ \E i \in ExtractionRequests(last') :
                 \A k \in 1..Len(last'.ai[i].text) :
                    last'.ai[i].text[k] = " ") =>
        /\ last'.ret = END /\ state' = END
        /\ \E k \in 1..Len(last'.replies) :
              last'.replies[k].tag = "plan_empty_or_missing"
        /\ files' = files]_vars

(* C20: a /read or a /done handled while the folder holds no profile
   document sends the user a message, changes no document and leaves the
   session where setup starts: in DRIVE_SETUP, or ended with the user told
   to run /start. *)
C20_MissingProfileRedirects ==
    [][(/\ last'.op \in {"read_command", "done_command"}
        /\ user_data.drive_folder_id # NoFolder
        /\ \A i \in InFolder(files, user_data.drive_folder_id) :
              files[i].name # ProfileName) =>
        /\ last'.replies # <<>>
        /\ state' \in {DRIVE_SETUP, END}
        /\ files' = files]_vars

(* what kind of text a logged generation call answers with *)
KindOf(call) ==
    IF call.fn = "generate_reading_plan" THEN "plan"
    ELSE IF call.fn = "generate_response" /\ call.to # call.from THEN "plan"
    ELSE IF call.fn = "generate_response" THEN "ref"
    ELSE "text"

NoneRaised(log) == \A k \in 1..Len(log.store) : ~log.store[k].raised

(* C21: without a client every generation call of a final onboarding
   answer, /read, /done or discussion turn answers with the sentinel, and
   with no store call failing the step is not held up: the final answer
   returns IDLE and the plan written is the sentinel; a /read with profile
   and plan in the folder returns READING, appends the sentinel to the plan
   and caches the sentinel as reference and as scripture; a /done (it makes
   no generation call) returns DISCUSSION; a discussion turn returns
   DISCUSSION and the history kept and written ends with the sentinel as
   the model's turn. *)
C21_UnavailableProviderProceeds ==
    [][(~client /\ last'.op \in Transitions) =>
        /\ \A k \in 1..Len(last'.ai) :
              last'.ai[k].text = Fixed(SentinelText, KindOf(last'.ai[k]))
        /\ (faults' = faults /\ NoneRaised(last')) =>
             LET folder == user_data.drive_folder_id
             IN  /\ last'.op = "onboarding_ordering" =>
                      /\ state' = IDLE /\ Len(last'.ai) = 1
                      /\ \E i \in InFolder(files', folder) :
                            files'[i].name = PlanName
                      /\ \A i \in InFolder(files', folder) :
                            files'[i].name = PlanName
                               => files'[i].data.plan = <<Unavailable>>
                 /\ (/\ last'.op = "read_command"
                     /\ ProfilePresent(files, folder)
                     /\ PlanPresent(files, folder)) =>
                      LET plan_id == last'.store[3].result
                          body == files'[plan_id].data.plan
                      IN  /\ state' = READING /\ Len(last'.ai) = 3
                          /\ body = files[plan_id].data.plan
                                       \o <<Blank, Unavailable>>
                          /\ user_data'.current_reading_ref = <<SentinelText>>
                          /\ user_data'.current_scripture = SentinelText
                 /\ (/\ last'.op = "done_command"
                     /\ ProfilePresent(files, folder)) =>
                      state' = DISCUSSION /\ last'.ai = <<>>
                 /\ last'.op = "discussion_handler" =>
                      LET window == user_data'.chat_history
                          doc == files'[last'.store[2].result].data.history
                      IN  /\ state' = DISCUSSION /\ Len(last'.ai) = 1
                          /\ window[Len(window)]
                                = [role |-> "model", parts |-> <<SentinelText>>]
                          /\ doc = window]_vars

(* without a client the session has been through onboarding, /read and
   /done, and a discussion turn has just been answered with the sentinel *)
C21_Witness ==
    /\ ~client /\ state = DISCUSSION /\ last.op = "discussion_handler"
    /\ last.ai[1].text = SentinelText
    /\ user_data.current_scripture = SentinelText
    /\ \E i \in PlanDocs(files) :
          files[i].data.plan = <<Unavailable, Blank, Unavailable>>
    /\ \E i \in HistoryDocs(files) :
          files[i].data.history[2].parts = <<SentinelText>>

-----------------------------------------------------------------------------
(* the history document of a folder holds turns *)
PersistedTurns(fs, folder) ==
    {fs[i].data.history : i \in {j \in InFolder(fs, folder) :
        /\ fs[j].name = HistoryName
        /\ Truthy(fs[j].data)
        /\ Get(fs[j].data, "history", <<>>) # <<>>}}

(* DISCUSSION is entered through done_command only, which sets the window to
   []: whenever a discussion turn is handled the in-memory window is present,
   and the branch of discussion_handler that reads the history document is
   never taken *)
WindowPresentAtEveryTurn ==
    [][last'.op = "discussion_handler" =>
        /\ user_data.has_chat_history
        /\ last'.ai[1].history = user_data.chat_history]_vars

(* C22: a discussion turn starts from the in-memory window when present,
   otherwise from the turn list of the persisted history document, otherwise
   from nothing; in particular the turns an earlier conversation persisted
   reach the provider: the first discussion turn of a conversation (none has
   completed since its /start), handled while the history document of the
   folder holds the turns persisted before, is called with those turns. *)
C22_PersistedHistoryIsPassed ==
    [][(/\ last'.op = "discussion_handler"
        /\ ~tally.talked
        /\ PersistedTurns(files, user_data.drive_folder_id) # {}) =>
        last'.ai[1].history
            \in PersistedTurns(files, user_data.drive_folder_id)]_vars

-----------------------------------------------------------------------------
(* C26: a discussion turn calls the provider once, with the history as it
   stood before the turn, which does not hold the new user input; the user's
   turn and the model's turn are appended after the response is there, the
   window kept being the last turns of the result; with no call failing the
   handler returns DISCUSSION.  The turn that follows a completed /done is
   called with an empty history. *)
C26_TurnPassesPriorHistory ==
    [][last'.op = "discussion_handler" =>
        LET before == user_data.chat_history
            call == last'.ai[1]
        IN  /\ Len(last'.ai) = 1
            /\ call.fn = "discuss_reading"
            /\ call.history = before
            /\ user_data'.chat_history
                  = KeepWindow(before \o <<Turn("user", last'.input),
                                           Turn("model", call.text)>>)
            /\ (last.op = "done_command" /\ last.ret = DISCUSSION)
                  => call.history = <<>>
            /\ (faults' = faults /\ NoneRaised(last'))
                  => state' = DISCUSSION /\ last'.ret = DISCUSSION]_vars

(* the second turn of a discussion has been answered: the provider was given
   the two turns of the first, the window holds four *)
C26_Witness ==
    /\ state = DISCUSSION /\ last.op = "discussion_handler"
    /\ last.ret = DISCUSSION
    /\ last.ai[1].history
          = <<Turn("user", "What does this mean?"), Turn("model", "It means...")>>
    /\ last.input = "Why?"
    /\ Len(user_data.chat_history) = 4

-----------------------------------------------------------------------------
(* the turns of the session's in-memory window ([]: none kept) *)
Window(ud) == IF ud.has_chat_history THEN ud.chat_history ELSE <<>>

(* the turn list a history document holds *)
TurnsOf(doc) == IF Truthy(doc.data) THEN Get(doc.data, "history", <<>>) ELSE <<>>

(* C30: right after a discussion turn that completes, the turn list of the
   persisted history document equals the in-memory window; the two differ
   only between a /done and the next completed discussion turn: once a turn
   has completed after the last /done they are equal in every state. *)
C30_WindowEqualsPersistedHistory ==
    ((last.op = "discussion_handler" /\ last.ret = DISCUSSION) \/ tally.turned)
        => \A i \in HistoryDocs(files) : TurnsOf(files[i]) = Window(user_data)

-----------------------------------------------------------------------------
(* the folder holds a document for each name of the quota guidance *)
PlaceholdersThere(fs) ==
    \A name \in QuotaGuidanceNames :
        \E i \in InFolder(fs, SharedFolder) : fs[i].name = name

(* the steps of the handlers that call the store *)
StoreHandlers == Transitions \cup {"drive_setup_handler"}

(* C28: in a folder the bot may create nothing in, once the three documents
   the quota guidance names are there, the session goes on: that folder
   submitted again leads to onboarding (or to IDLE when the profile is
   filled), the final answer to IDLE, /read to READING, /done and a
   discussion turn to DISCUSSION.  In none of these steps, taken with no call
   failing, is the store asked to create a document: no write raises, none
   creates, every write is an update of one of the three documents under its
   own name, and the folder holds the same documents afterwards.  The names
   of the guidance are the names the handlers read and write. *)
C28_PlaceholdersAreUpdated ==
    [][(/\ ~canCreate /\ PlaceholdersThere(files)
        /\ last'.op \in StoreHandlers
        /\ user_data'.drive_folder_id = SharedFolder
        /\ faults' = faults) =>
        LET calls == last'.store
            folder == SharedFolder
        IN  /\ QuotaGuidanceNames = {ProfileName, PlanName, HistoryName}
            /\ \A k \in 1..Len(calls) : ~calls[k].raised /\ ~calls[k].created
            /\ \A k \in 1..Len(calls) :
                  calls[k].call = "write_yaml_file" =>
                     /\ calls[k].name \in QuotaGuidanceNames
                     /\ calls[k].result \in InFolder(files, SharedFolder)
                     /\ files[calls[k].result].name = calls[k].name
            /\ DOMAIN files' = DOMAIN files
            /\ \A i \in DOMAIN files : files'[i].name = files[i].name
            /\ last'.op = "drive_setup_handler"
                  => state' \in {ONBOARDING_LANGUAGE, IDLE}
            /\ last'.op = "onboarding_ordering" => state' = IDLE
            /\ (/\ last'.op = "read_command"
                /\ ProfilePresent(files, folder)
                /\ PlanPresent(files, folder)) => state' = READING
            /\ (last'.op = "done_command" /\ ProfilePresent(files, folder))
                  => state' = DISCUSSION
            /\ last'.op = "discussion_handler" => state' = DISCUSSION]_vars

(* the bot may create nothing; the session has been through onboarding,
   /read and /done and a discussion turn has been written: the folder holds
   the three documents the user created and no other, each one filled *)
C28_Witness ==
    /\ ~canCreate /\ state = DISCUSSION /\ last.op = "discussion_handler"
    /\ last.ret = DISCUSSION
    /\ DOMAIN files = 1..3
    /\ \A k \in 1..3 : files[k].name = PlaceholderNames[k] /\ Truthy(files[k].data)
    /\ Len(files[3].data.history) = 2
    /\ files[1].data.current_day = 2

-----------------------------------------------------------------------------
(* the days of the "Day N" labels of a plan body, in the order they occur *)
RECURSIVE DayLabels(_)
DayLabels(body) ==
    IF body = <<>> THEN <<>>
    ELSE (IF Head(body).day # 0 THEN <<Head(body).day>> ELSE <<>>)
            \o DayLabels(Tail(body))

StrictlyIncreasing(days) ==
    \A i, j \in 1..Len(days) : i < j => days[i] < days[j]

(* C25: with a provider that answers each plan request and each extension
   request with the labels of the days asked for, in increasing order, the
   "Day N" labels of the persisted plan body occur in strictly increasing
   order, none repeated, in every state reached by store-link submissions,
   onboarding, /read and /done events.  (It is an invariant of SpecLong,
   where no call fails.) *)
C25_DayLabelsIncrease ==
    \A i \in PlanDocs(files) :
        "plan" \in DOMAIN files[i].data
            => StrictlyIncreasing(DayLabels(files[i].data.plan))

-----------------------------------------------------------------------------
(* C27: in any folder there is at most one document named for the profile,
   at most one for the plan and at most one for the history, whatever events
   the session has processed, events during which a listing or a lookup of
   the store failed included: an upsert without an id creates a document
   only when none of that name exists. *)
C27_OneDocumentPerName ==
    \A i, j \in DOMAIN files :
        (/\ files[i].folder = files[j].folder
         /\ files[i].name = files[j].name
         /\ files[i].name \in {ProfileName, PlanName, HistoryName}) => i = j

-----------------------------------------------------------------------------
(* C29: once onboarding has completed, the persisted current_day is 1 plus
   the number of /done events that completed with DISCUSSION since then, in
   every state: no other event changes it. *)
C29_DayCountsDones ==
    \A i \in ProfileDocs(files) :
        "current_day" \in DOMAIN files[i].data
            => files[i].data.current_day = 1 + tally.dones

-----------------------------------------------------------------------------
(* the document ids a handler run gave to the store or got from it *)
Touched(log) ==
    {log.store[k].file_id : k \in 1..Len(log.store)}
        \cup {log.store[k].result : k \in 1..Len(log.store)}

(* C24: two sessions of different users, linked to different folders and
   interleaved in any order, do not affect each other.  A handler run of one
   session reads and writes documents of that session's folder only, and
   leaves the other session (its state, its user_data) and every document
   outside its own folder as they were; handing over to the other session
   changes no document and neither session.  So the states, the context and
   the documents of a session are the same whatever the other one does. *)
C24_SessionsDoNotInterfere ==
    [][IF last'.op = "switch"
       THEN /\ files' = files
            /\ Parked(state', user_data', coveredDay', tally') = other
            /\ other' = Parked(state, user_data, coveredDay, tally)
       ELSE LET mine == user_data'.drive_folder_id
            IN  /\ mine # other.user_data.drive_folder_id
                   \/ mine = NoFolder
                /\ other' = other /\ who' = who
                /\ last'.op \notin {"drive_setup_handler"}
                      => user_data'.drive_folder_id = user_data.drive_folder_id
                /\ \A i \in DOMAIN files :
                      files[i].folder # mine
                         => i \in DOMAIN files' /\ files'[i] = files[i]
                /\ \A i \in DOMAIN files' :
                      files'[i].folder # mine => i \in DOMAIN files
                /\ \A id \in Touched(last') \ {None} :
                      /\ id \in DOMAIN files => files[id].folder = mine
                      /\ id \in DOMAIN files' => files'[id].folder = mine]_vars

(* both users are in a discussion, each folder holds its three documents,
   and the second user's turn has just been written to the second folder *)
C24_Witness ==
    /\ who = "B" /\ state = DISCUSSION /\ other.state = DISCUSSION
    /\ last.op = "discussion_handler"
    /\ user_data.drive_folder_id = OtherFolder
    /\ other.user_data.drive_folder_id = SharedFolder
    /\ Cardinality(InFolder(files, SharedFolder)) = 3
    /\ Cardinality(InFolder(files, OtherFolder)) = 3
    /\ \A i \in HistoryDocs(files) : Len(files[i].data.history) = 2

-----------------------------------------------------------------------------
(* the turns alternate: a user turn first, a model turn last *)
Alternates(history) ==
    /\ Len(history) % 2 = 0
    /\ \A k \in 1..Len(history) :
          history[k].role = IF k % 2 = 1 THEN "user" ELSE "model"

(* C31: in every state the history window is empty or an even-length
   sequence of turns whose roles alternate, a user turn first and a model
   turn last; the window cut to the last ten turns does not begin with a
   model turn.  The same holds of the turn list of the history document. *)
C31_WindowAlternates ==
    /\ Alternates(user_data.chat_history)
    /\ Len(user_data.chat_history) <= HistoryLimit
    /\ \A i \in HistoryDocs(files) : Alternates(TurnsOf(files[i]))

(* a turn has just been taken with a full window: twelve turns were cut to
   the last ten *)
C31_Witness ==
    /\ last.op = "discussion_handler"
    /\ Len(last.ai[1].history) = HistoryLimit
    /\ Len(user_data.chat_history) = HistoryLimit
    /\ user_data.chat_history[1].role = "user"
    /\ user_data.chat_history[1].parts = <<"Why?">>

-----------------------------------------------------------------------------
(* The bot as the entry point builds it: drive = GoogleDriveManager(),
   BibleBot(token, drive, ai).  The store calls of the handlers are attribute
   lookups on that object: a method the class does not define raises
   AttributeError where the handler names it. *)

(* the methods class GoogleDriveManager defines *)
GoogleDriveManager ==
    {"get_service_account_email", "list_files_in_folder", "read_md_file",
     "write_md_file", "delete_file", "get_file_id_by_name"}

(* hasattr(self.drive, op) *)
Provides(op) == op \in GoogleDriveManager

(* str(e) of the AttributeError *)
ErrAttribute(op) ==
    <<"'GoogleDriveManager'", "object", "has", "no", "attribute", op>>

(* what self.drive.<op> raises before any request is made (NoErr: nothing) *)
MethodError(op) == IF Provides(op) THEN NoErr ELSE ErrAttribute(op)

(* a profile.yaml was found and self.drive.read_yaml_file is looked up: the
   AttributeError is raised outside any try, after the folder id was kept *)
SetupReadRaises(text, okList, profile_id) ==
    LET ud == [user_data EXCEPT !.drive_folder_id = Strip(text)]
        calls == <<ListCall(Strip(text), okList),
                   StoreCall("get_file_id_by_name", ProfileName, None, profile_id),
                   [StoreCall("read_yaml_file", ProfileName, profile_id, None)
                       EXCEPT !.raised = TRUE,
                              !.err = MethodError("read_yaml_file")]>>
    IN  Outcome(RAISED, ud, files,
                Log("drive_setup_handler", text, RAISED, <<>>, <<>>, calls))

(* drive_setup_handler of the bot built on GoogleDriveManager *)
DriveSetupHandlerRepo ==
    /\ Routed(state, "text", "drive_setup_handler")
    /\ \E text \in FolderTexts, okList, okLookup \in Oks :
        \E profile_id \in GetFileIdByName(files, Strip(text), ProfileName,
                                          okLookup) :
          IF profile_id # None
          THEN IF Provides("read_yaml_file")
               THEN \E okRead \in Oks :
                      /\ Failing(Bad(okList) + Bad(okLookup) + Bad(okRead))
                      /\ Apply(SetupFoundProfile(text, okList, profile_id,
                                  ReadYamlFile(files, profile_id, okRead)))
               ELSE /\ Failing(Bad(okList) + Bad(okLookup))
                    /\ Apply(SetupReadRaises(text, okList, profile_id))
          ELSE IF Provides("write_yaml_file")
               THEN \E okFind, okDelete \in Oks, err \in Errs(WriteErrors) :
                      \E found \in GetFileIdByName(files, Strip(text),
                                                   ProbeName, okFind) :
                         /\ Failing(Bad(okList) + Bad(okLookup) + Bad(okFind)
                                    + Err(err) + Bad(okDelete))
                         /\ WithinFiles(files, None, found)
                         /\ Apply(SetupProbe(text, okList, found, err, okDelete))
               ELSE /\ Failing(Bad(okList) + Bad(okLookup))
                    /\ Apply(SetupProbe(text, okList, None,
                                        MethodError("write_yaml_file"), TRUE))

(* a profile.yaml with content, as an earlier run or the user left it *)
PopulatedProfile ==
    [folder |-> SharedFolder, name |-> ProfileName,
     data |-> [current_day |-> FirstDay, language |-> "English"]]

(* what the folder holds when the bot is started: nothing, the placeholders
   the user made, a populated profile alone or with the other two files *)
RepoFolders ==
    {[i \in {} |-> 0],
     [k \in 1..3 |-> Placeholder(PlaceholderNames[k])],
     [k \in 1..1 |-> PopulatedProfile],
     [k \in 1..3 |-> IF k = 1 THEN PopulatedProfile
                     ELSE Placeholder(PlaceholderNames[k])]}

InitRepo ==
    /\ state = END
    /\ user_data = EmptyUserData
    /\ files \in RepoFolders
    /\ faults = 0
    /\ coveredDay = 0
    /\ tally = NoTally
    /\ who = "A"
    /\ other = Parked(END, EmptyUserData, 0, NoTally)
    /\ last = Log("init", <<>>, END, <<>>, <<>>, <<>>)
    /\ canCreate \in BOOLEAN
    /\ client \in BOOLEAN
    /\ limits = Limits(MaxFiles, MaxFaults, MaxDay, MaxPlanLen, 1)

NextRepo ==
    \/ Start
    \/ DriveSetupHandlerRepo
    \/ Cancel
    \/ HelpCommand
    \/ UserCreatesPlaceholders

SpecRepo == InitRepo /\ [][NextRepo]_vars

(* C32: with GoogleDriveManager as the store, every store operation a handler
   invokes is a method of the adapter, and a store-link submission with no
   adapter request failing, made by an account that may create files in the
   shared folder it names, returns ONBOARDING_LANGUAGE with the first
   onboarding question when the folder holds no profile.yaml, and IDLE when
   every profile.yaml in it has content. *)
C32_RepositoryAdapterOnboards ==
    [][(/\ last'.op = "drive_setup_handler"
        /\ faults' = faults
        /\ canCreate
        /\ Strip(last'.input) = SharedFolder) =>
        /\ \A k \in 1..Len(last'.store) :
              last'.store[k].call \in GoogleDriveManager
        /\ (\A i \in InFolder(files, SharedFolder) :
               files[i].name # ProfileName)
              => /\ state' = ONBOARDING_LANGUAGE
                 /\ \E k \in 1..Len(last'.replies) :
                       last'.replies[k].asks = "language"
        /\ (/\ \E i \in InFolder(files, SharedFolder) :
                  files[i].name = ProfileName
            /\ \A i \in InFolder(files, SharedFolder) :
                  files[i].name = ProfileName => DOMAIN files[i].data # {})
              => state' = IDLE]_vars

=============================================================================
